---- MODULE Spec2Model ----
(***************************************************************************)
(* Model of FreeRTOS_13_semaphore_circle_buffer (main.c): a 32-slot       *)
(* circular byte buffer written by vSenderTask and drained by             *)
(* vReceiverTask, with a binary semaphore as the wake-up signal.          *)
(*                                                                         *)
(* A task can be switched out between any two statements, so each step   *)
(* of a task is one statement: a kernel call with the test of its result, *)
(* one memory access of txbuf_put or txbuf_get (the full/empty check, the *)
(* access to txbuf, the index advance), or one update of the task's       *)
(* locals (cnt_tx++, the printf that counts, i++ with the loop test).     *)
(* txbuf, tx_r and tx_w are plain globals shared by the two tasks with no *)
(* volatile and no barrier, so the build decides the order of the two     *)
(* stores of txbuf_put (source order: byte, then tx_w; gcc 12.2 -O2, -Os  *)
(* and -O1 -fschedule-insns2 write tx_w first) and the order of the load  *)
(* and the store of txbuf_get (source order: load, then tx_r; gcc -O2     *)
(* -fno-schedule-insns2 writes tx_r first).  index_first and              *)
(* advance_first record which build runs.  The kernel calls               *)
(* xSemaphoreGive and xSemaphoreTake are atomic (they run in a kernel     *)
(* critical section).                                                     *)
(***************************************************************************)
EXTENDS Integers, Sequences, FiniteSets

VARIABLES
    mainpc,            \* position of main(): "start", "scheduling", "returned"; "unit" in SpecUnit
    xBinarySemaphore,  \* the handle: NULL or SemHandle
    sem,               \* the semaphore's count (uxMessagesWaiting): 0 or 1
    txbuf, tx_r, tx_w, \* the ring buffer
    s_pc, i, cnt_tx, cnt_ok_s, cnt_err_s,   \* vSenderTask: position and locals
    r_pc, cnt_ok_r, cnt_err_r, c,           \* vReceiverTask: position and locals
    put,               \* history: bytes of the txbuf_put calls that advanced tx_w
    got,               \* history: bytes yielded by txbuf_get calls that returned 0
    drops,             \* history: values of cnt_tx whose txbuf_put returned -1
    d_left, d_put,     \* history of the current drain: unread bytes at the take minus
                       \* gets that returned data since, whether a put completed since
    wake,              \* history of the last take: "fresh" until the first get after it,
                       \* "empty" once that first get returned -1, "none" otherwise
    prio_s, prio_r,    \* uxPriority of the two tasks (0: not created)
    index_first,       \* the build: TRUE when txbuf_put writes tx_w before the byte
    advance_first,     \* the build: TRUE when txbuf_get writes tx_r before it loads the byte
    op, ret            \* SpecUnit: the last call made and what it returned

vars == << mainpc, xBinarySemaphore, sem, txbuf, tx_r, tx_w,
           s_pc, i, cnt_tx, cnt_ok_s, cnt_err_s,
           r_pc, cnt_ok_r, cnt_err_r, c,
           put, got, drops, d_left, d_put, wake, prio_s, prio_r, index_first,
           advance_first, op, ret >>

---------------------------------------------------------------------------
(* Bounds of the model *)

\* the sender stops after this many batches of BatchLen put attempts (the
\* bound of SpecRef)
MaxBatch == 12
\* SpecPrio: the sender stops after this many batches
MaxBatchPrio == 11
\* SpecUnit: the number of txbuf_put calls made
MaxUnitPut == 34
\* Spec (free interleaving): the sender stops after this many batches
MaxBatchFree == 11
\* Spec: in the build that writes tx_w first the sender stops after this
\* many batches
MaxBatchRace == 1

(* Program constants *)

BUF_LEN == 32
IndexMask == 31
BatchLen == 3
SenderPriority == 2
ReceiverPriority == 1
CharA == 97
ByteMod == 256
pdTRUE == 1
pdFALSE == 0
NULL == 0
SemHandle == 1
\* the largest TickType_t (0xffffffff), as the largest integer of the checker
portMAX_DELAY == 2147483647

\* values an uninitialised uint8_t local may hold (both ends of the range)
UninitBytes == {0, 255}

---------------------------------------------------------------------------
(* Pure helpers *)

RECURSIVE BitAnd(_, _)
BitAnd(a, b) ==
    IF a = 0 \/ b = 0 THEN 0
    ELSE (a % 2) * (b % 2) + 2 * BitAnd(a \div 2, b \div 2)

\* mutant: the mask of a 16-slot buffer
NEXT_PLACE_mask15(k) == BitAnd(k + 1, 15)

\* #define NEXT_PLACE(i) ((i+1)&0x1F)
NEXT_PLACE(k) == BitAnd(k + 1, IndexMask)

\* mutant: reports empty one byte early
is_txbuf_empty_early(r, w) == NEXT_PLACE(r) = w

\* return tx_r == tx_w;
is_txbuf_empty(r, w) == r = w

\* mutant: the full test without the wrap
is_txbuf_full_nowrap(r, w) == w + 1 = r

\* return NEXT_PLACE(tx_w) == tx_r;
is_txbuf_full(r, w) == NEXT_PLACE(w) = r

\* 'a'+cnt_tx passed as unsigned char
SenderByte(n) == (CharA + n) % ByteMod

\* mutant: stores the byte before the full test
txbuf_put_store_first(buf, r, w, val) ==
    IF is_txbuf_full(r, w)
    THEN [txbuf |-> [buf EXCEPT ![w] = val], tx_r |-> r, tx_w |-> w, ret |-> -1]
    ELSE [txbuf |-> [buf EXCEPT ![w] = val], tx_r |-> r,
          tx_w |-> NEXT_PLACE(w), ret |-> 0]

\* txbuf_put as one call: the new buffer, indices and the return value
txbuf_put(buf, r, w, val) ==
    IF is_txbuf_full(r, w)
    THEN [txbuf |-> buf, tx_r |-> r, tx_w |-> w, ret |-> -1]
    ELSE [txbuf |-> [buf EXCEPT ![w] = val], tx_r |-> r,
          tx_w |-> NEXT_PLACE(w), ret |-> 0]

\* mutant: loads the byte before the empty test
txbuf_get_load_first(buf, r, w, pval) ==
    IF is_txbuf_empty(r, w)
    THEN [txbuf |-> buf, tx_r |-> r, tx_w |-> w, pval |-> buf[r], ret |-> -1]
    ELSE [txbuf |-> buf, tx_r |-> NEXT_PLACE(r), tx_w |-> w,
          pval |-> buf[r], ret |-> 0]

\* txbuf_get as one call: pval is the caller's byte *pval before the call
txbuf_get(buf, r, w, pval) ==
    IF is_txbuf_empty(r, w)
    THEN [txbuf |-> buf, tx_r |-> r, tx_w |-> w, pval |-> pval, ret |-> -1]
    ELSE [txbuf |-> buf, tx_r |-> NEXT_PLACE(r), tx_w |-> w,
          pval |-> buf[r], ret |-> 0]

\* mutant: a counting semaphore, every give accumulates
xSemaphoreGive_counting(s) == [sem |-> s + 1, ret |-> pdTRUE]

\* xSemaphoreGive on a binary semaphore with count s: never blocks; fails when
\* the semaphore is already signaled
xSemaphoreGive(s) ==
    IF s = 1 THEN [sem |-> 1, ret |-> pdFALSE]
    ELSE [sem |-> 1, ret |-> pdTRUE]

\* xSemaphoreTake: the set of ways the call can return.  Empty: the caller
\* stays blocked.
xSemaphoreTake(s, xTicksToWait) ==
    IF s = 1 THEN {[sem |-> 0, ret |-> pdTRUE]}
    ELSE IF xTicksToWait = portMAX_DELAY THEN {}
    ELSE {[sem |-> 0, ret |-> pdFALSE]}

---------------------------------------------------------------------------
(* Initial state: the globals as the C runtime zero-initialises them, main *)
(* about to run                                                            *)

InitBuffer ==
    /\ txbuf = [k \in 0 .. BUF_LEN - 1 |-> 0]
    /\ put = << >>
    /\ got = << >>
    /\ drops = {}

InitTasks ==
    /\ s_pc = "put_check" /\ i = 0 /\ cnt_tx = 0 /\ cnt_ok_s = 0 /\ cnt_err_s = 0
    /\ r_pc = "take" /\ cnt_ok_r = 0 /\ cnt_err_r = 0
    /\ c \in UninitBytes
    /\ d_left = 0 /\ d_put = FALSE /\ wake = "none"
    /\ prio_s = 0 /\ prio_r = 0

Init ==
    /\ mainpc = "start"
    /\ index_first \in BOOLEAN
    /\ advance_first \in BOOLEAN
    /\ xBinarySemaphore = NULL
    /\ sem = 0
    /\ tx_r = 0 /\ tx_w = 0
    /\ InitBuffer
    /\ InitTasks
    /\ op = "none" /\ ret = 0

---------------------------------------------------------------------------
(* main *)

bufVars == << txbuf, tx_r, tx_w, put, got, drops >>
senderVars == << s_pc, i, cnt_tx, cnt_ok_s, cnt_err_s >>
receiverVars == << r_pc, cnt_ok_r, cnt_err_r, c >>
drainVars == << d_left, d_put, wake >>
taskPrio == << prio_s, prio_r >>
unitVars == << op, ret >>
buildVars == << index_first, advance_first >>

\* main with the two tasks asked for at priorities ps and pr:
\* xSemaphoreCreateBinary; when the handle is not NULL the two xTaskCreate,
\* whose results main does not test (made_s, made_r: the task was created),
\* and vTaskStartScheduler, which either runs the tasks for ever or returns
\* (runs = FALSE), after which main returns 0; return 0 at once otherwise
MainWith(ps, pr) ==
    /\ mainpc = "start"
    /\ \E h \in {NULL, SemHandle}, made_s \in BOOLEAN, made_r \in BOOLEAN,
          runs \in BOOLEAN :
          /\ xBinarySemaphore' = h
          /\ IF h # NULL
             THEN /\ prio_s' = IF made_s THEN ps ELSE 0
                  /\ prio_r' = IF made_r THEN pr ELSE 0
                  /\ mainpc' = IF runs THEN "scheduling" ELSE "returned"
             ELSE /\ mainpc' = "returned"
                  /\ UNCHANGED taskPrio
    /\ UNCHANGED << sem, bufVars, senderVars, receiverVars, drainVars, unitVars,
                    buildVars >>

\* mutant: the handle is not tested
Main_no_null_check ==
    /\ mainpc = "start"
    /\ \E h \in {NULL, SemHandle}, made_s \in BOOLEAN, made_r \in BOOLEAN,
          runs \in BOOLEAN :
          /\ xBinarySemaphore' = h
          /\ prio_s' = IF made_s THEN SenderPriority ELSE 0
          /\ prio_r' = IF made_r THEN ReceiverPriority ELSE 0
          /\ mainpc' = IF runs THEN "scheduling" ELSE "returned"
    /\ UNCHANGED << sem, bufVars, senderVars, receiverVars, drainVars, unitVars,
                    buildVars >>

\* mutant: the two priorities exchanged
Main_swapped == MainWith(ReceiverPriority, SenderPriority)

\* main: the sender at priority 2, the receiver at priority 1
Main == MainWith(SenderPriority, ReceiverPriority)

---------------------------------------------------------------------------
(* vSenderTask *)

\* mutant: a failed put does not advance cnt_tx (the value is retried)
SenderPutCheck_retry ==
    /\ mainpc = "scheduling"
    /\ prio_s # 0
    /\ s_pc = "put_check"
    /\ cnt_tx < BatchLen * MaxBatch
    /\ IF is_txbuf_full(tx_r, tx_w)
       THEN /\ drops' = drops \cup {cnt_tx}
            /\ s_pc' = "give"
       ELSE /\ s_pc' = IF index_first THEN "put_adv" ELSE "put_store"
            /\ UNCHANGED drops
    /\ UNCHANGED << mainpc, xBinarySemaphore, sem, txbuf, tx_r, tx_w, put, got,
                    i, cnt_tx, cnt_ok_s, cnt_err_s, receiverVars, drainVars,
                    unitVars, taskPrio, buildVars >>

\* mutant: the give is made only after a put that returned 0
SenderPutCheck_skip_give ==
    /\ mainpc = "scheduling"
    /\ prio_s # 0
    /\ s_pc = "put_check"
    /\ cnt_tx < BatchLen * MaxBatch
    /\ IF is_txbuf_full(tx_r, tx_w)
       THEN /\ cnt_tx' = cnt_tx + 1
            /\ drops' = drops \cup {cnt_tx}
            /\ s_pc' = "loop"
       ELSE /\ s_pc' = IF index_first THEN "put_adv" ELSE "put_store"
            /\ UNCHANGED << cnt_tx, drops >>
    /\ UNCHANGED << mainpc, xBinarySemaphore, sem, txbuf, tx_r, tx_w, put, got,
                    i, cnt_ok_s, cnt_err_s, receiverVars, drainVars, unitVars,
                    taskPrio, buildVars >>

\* txbuf_put('a'+cnt_tx): if (is_txbuf_full()) return -1;
\* When the buffer is not full the build's first store follows.
SenderPutCheck ==
    /\ mainpc = "scheduling"
    /\ prio_s # 0
    /\ s_pc = "put_check"
    /\ cnt_tx < BatchLen * MaxBatch
    /\ IF is_txbuf_full(tx_r, tx_w)
       THEN /\ drops' = drops \cup {cnt_tx}
            /\ s_pc' = "inc"
       ELSE /\ s_pc' = IF index_first THEN "put_adv" ELSE "put_store"
            /\ UNCHANGED drops
    /\ UNCHANGED << mainpc, xBinarySemaphore, sem, txbuf, tx_r, tx_w, put, got,
                    i, cnt_tx, cnt_ok_s, cnt_err_s, receiverVars, drainVars,
                    unitVars, taskPrio, buildVars >>

\* the slot txbuf_put writes: the value of tx_w it read at its entry, which
\* is the current tx_w less one (modulo 32) once the call has advanced tx_w
\* (only the sender writes tx_w)
PutSlot == IF index_first THEN (tx_w + BUF_LEN - 1) % BUF_LEN ELSE tx_w

\* txbuf[tx_w] = val;  the first store of the call in the source's order,
\* the second (then return 0) in the build that writes tx_w first
SenderPutStore ==
    /\ mainpc = "scheduling"
    /\ prio_s # 0
    /\ s_pc = "put_store"
    /\ txbuf' = [txbuf EXCEPT ![PutSlot] = SenderByte(cnt_tx)]
    /\ s_pc' = IF index_first THEN "inc" ELSE "put_adv"
    /\ UNCHANGED << mainpc, xBinarySemaphore, sem, tx_r, tx_w, put, got, drops,
                    i, cnt_tx, cnt_ok_s, cnt_err_s, receiverVars, drainVars,
                    unitVars, taskPrio, buildVars >>

\* tx_w = NEXT_PLACE(tx_w);  the second store of the call in the source's
\* order (then return 0), the first in the build that writes tx_w first
SenderPutAdv ==
    /\ mainpc = "scheduling"
    /\ prio_s # 0
    /\ s_pc = "put_adv"
    /\ tx_w' = NEXT_PLACE(tx_w)
    /\ put' = Append(put, SenderByte(cnt_tx))
    /\ s_pc' = IF index_first THEN "put_store" ELSE "inc"
    /\ IF r_pc # "take"
       THEN d_put' = TRUE /\ d_left' = 0 /\ UNCHANGED wake
       ELSE UNCHANGED drainVars
    /\ UNCHANGED << mainpc, xBinarySemaphore, sem, txbuf, tx_r, got, drops,
                    i, cnt_tx, cnt_ok_s, cnt_err_s, receiverVars, unitVars,
                    taskPrio, buildVars >>

\* cnt_tx++;  after the put, whatever it returned
SenderInc ==
    /\ mainpc = "scheduling"
    /\ prio_s # 0
    /\ s_pc = "inc"
    /\ cnt_tx' = cnt_tx + 1
    /\ s_pc' = "give"
    /\ UNCHANGED << mainpc, xBinarySemaphore, sem, bufVars, i, cnt_ok_s,
                    cnt_err_s, receiverVars, drainVars, unitVars, taskPrio,
                    buildVars >>

\* mutant: the give is made for the first put of a batch only
SenderGive_first_only ==
    /\ mainpc = "scheduling"
    /\ prio_s # 0
    /\ s_pc = "give"
    /\ LET res == IF i = 0 THEN xSemaphoreGive(sem)
                  ELSE [sem |-> sem, ret |-> pdTRUE] IN
          /\ sem' = res.sem
          /\ s_pc' = IF res.ret = pdTRUE THEN "gave_ok" ELSE "gave_err"
    /\ UNCHANGED << mainpc, xBinarySemaphore, bufVars, i, cnt_tx, cnt_ok_s,
                    cnt_err_s, receiverVars, drainVars, unitVars, taskPrio,
                    buildVars >>

\* mutant: a give that waits for the semaphore to be free (a queue send with
\* a timeout), instead of returning errQUEUE_FULL at once
SenderGive_wait_until_free ==
    /\ mainpc = "scheduling"
    /\ prio_s # 0
    /\ s_pc = "give"
    /\ sem = 0
    /\ LET res == xSemaphoreGive(sem) IN
          /\ sem' = res.sem
          /\ s_pc' = IF res.ret = pdTRUE THEN "gave_ok" ELSE "gave_err"
    /\ UNCHANGED << mainpc, xBinarySemaphore, bufVars, i, cnt_tx, cnt_ok_s,
                    cnt_err_s, receiverVars, drainVars, unitVars, taskPrio,
                    buildVars >>

\* xSemaphoreGive(xBinarySemaphore) == pdTRUE: the kernel call and the test
\* of its result; the call is a scheduling point, the branch taken is the
\* sender's position
SenderGive ==
    /\ mainpc = "scheduling"
    /\ prio_s # 0
    /\ s_pc = "give"
    /\ LET res == xSemaphoreGive(sem) IN
          /\ sem' = res.sem
          /\ s_pc' = IF res.ret = pdTRUE THEN "gave_ok" ELSE "gave_err"
    /\ UNCHANGED << mainpc, xBinarySemaphore, bufVars, i, cnt_tx, cnt_ok_s,
                    cnt_err_s, receiverVars, drainVars, unitVars, taskPrio,
                    buildVars >>

\* printf("Give BinarySemaphore %d time: OK\r\n", cnt_ok++);  or
\* printf("Give BinarySemaphore %d time: ERR\r\n", cnt_err++);
SenderCount ==
    /\ mainpc = "scheduling"
    /\ prio_s # 0
    /\ s_pc \in {"gave_ok", "gave_err"}
    /\ IF s_pc = "gave_ok"
       THEN cnt_ok_s' = cnt_ok_s + 1 /\ UNCHANGED cnt_err_s
       ELSE cnt_err_s' = cnt_err_s + 1 /\ UNCHANGED cnt_ok_s
    /\ s_pc' = "loop"
    /\ UNCHANGED << mainpc, xBinarySemaphore, sem, bufVars, i, cnt_tx,
                    receiverVars, drainVars, unitVars, taskPrio, buildVars >>

\* for (...; i < 3; i++): the increment and the test that follows it
SenderLoop ==
    /\ mainpc = "scheduling"
    /\ prio_s # 0
    /\ s_pc = "loop"
    /\ i' = i + 1
    /\ s_pc' = IF i + 1 < BatchLen THEN "put_check" ELSE "delay"
    /\ UNCHANGED << mainpc, xBinarySemaphore, sem, bufVars, cnt_tx, cnt_ok_s,
                    cnt_err_s, receiverVars, drainVars, unitVars, taskPrio,
                    buildVars >>

\* vTaskDelay(xTicksToWait); then the next batch starts with i = 0
SenderDelay ==
    /\ mainpc = "scheduling"
    /\ prio_s # 0
    /\ s_pc = "delay"
    /\ i' = 0
    /\ s_pc' = "put_check"
    /\ UNCHANGED << mainpc, xBinarySemaphore, sem, bufVars, cnt_tx, cnt_ok_s,
                    cnt_err_s, receiverVars, drainVars, unitVars, taskPrio,
                    buildVars >>

\* the sender's steps between two delays
SenderCode ==
    \/ SenderPutCheck \/ SenderPutStore \/ SenderPutAdv \/ SenderInc
    \/ SenderGive \/ SenderCount \/ SenderLoop

Sender == SenderCode \/ SenderDelay

---------------------------------------------------------------------------
(* vReceiverTask *)

\* mutant: the receiver polls with a zero timeout
ReceiverTake_poll ==
    /\ mainpc = "scheduling"
    /\ prio_r # 0
    /\ r_pc = "take"
    /\ \E res \in xSemaphoreTake(sem, 0) :
          /\ sem' = res.sem
          /\ IF res.ret = pdTRUE
             THEN /\ r_pc' = "took_ok"
                  /\ d_left' = Len(put) - Len(got)
                  /\ wake' = "fresh"
             ELSE /\ r_pc' = "took_err"
                  /\ UNCHANGED << d_left, wake >>
    /\ d_put' = FALSE
    /\ UNCHANGED << mainpc, xBinarySemaphore, bufVars, senderVars, cnt_ok_r,
                    cnt_err_r, c, unitVars, taskPrio, buildVars >>

\* xSemaphoreTake(xBinarySemaphore, portMAX_DELAY) == pdTRUE: the kernel call
\* and the test of its result; the receiver is blocked while no result exists
ReceiverTake ==
    /\ mainpc = "scheduling"
    /\ prio_r # 0
    /\ r_pc = "take"
    /\ \E res \in xSemaphoreTake(sem, portMAX_DELAY) :
          /\ sem' = res.sem
          /\ IF res.ret = pdTRUE
             THEN /\ r_pc' = "took_ok"
                  /\ d_left' = Len(put) - Len(got)
                  /\ wake' = "fresh"
             ELSE /\ r_pc' = "took_err"
                  /\ UNCHANGED << d_left, wake >>
    /\ d_put' = FALSE
    /\ UNCHANGED << mainpc, xBinarySemaphore, bufVars, senderVars, cnt_ok_r,
                    cnt_err_r, c, unitVars, taskPrio, buildVars >>

\* printf("Get BinarySemaphore OK: %d\r\n", cnt_ok++);  then the while loop;
\* or printf("Get BinarySemaphore ERR: %d\r\n", cnt_err++);  then the take
ReceiverCount ==
    /\ mainpc = "scheduling"
    /\ prio_r # 0
    /\ r_pc \in {"took_ok", "took_err"}
    /\ IF r_pc = "took_ok"
       THEN /\ cnt_ok_r' = cnt_ok_r + 1
            /\ r_pc' = "get_check"
            /\ UNCHANGED cnt_err_r
       ELSE /\ cnt_err_r' = cnt_err_r + 1
            /\ r_pc' = "take"
            /\ UNCHANGED cnt_ok_r
    /\ UNCHANGED << mainpc, xBinarySemaphore, sem, bufVars, senderVars, c,
                    drainVars, unitVars, taskPrio, buildVars >>

\* txbuf_get(&c): if (is_txbuf_empty()) return -1;  which ends the while
\* loop.  When the buffer is not empty the build's first access follows.
ReceiverGetCheck ==
    /\ mainpc = "scheduling"
    /\ prio_r # 0
    /\ r_pc = "get_check"
    /\ IF is_txbuf_empty(tx_r, tx_w)
       THEN /\ r_pc' = "take"
            /\ d_left' = 0 /\ d_put' = FALSE
            /\ wake' = IF wake = "fresh" THEN "empty" ELSE "none"
       ELSE /\ r_pc' = IF advance_first THEN "get_adv" ELSE "get_load"
            /\ wake' = "none"
            /\ UNCHANGED << d_left, d_put >>
    /\ UNCHANGED << mainpc, xBinarySemaphore, sem, bufVars, senderVars,
                    cnt_ok_r, cnt_err_r, c, unitVars, taskPrio, buildVars >>

\* the slot txbuf_get reads: the value of tx_r it read at its entry, which
\* is the current tx_r less one (modulo 32) once the call has advanced tx_r
\* (only the receiver writes tx_r)
GetSlot == IF advance_first THEN (tx_r + BUF_LEN - 1) % BUF_LEN ELSE tx_r

\* mutant: the get clears the slot it has read
ReceiverGetLoad_clear ==
    /\ mainpc = "scheduling"
    /\ prio_r # 0
    /\ r_pc = "get_load"
    /\ c' = txbuf[GetSlot]
    /\ txbuf' = [txbuf EXCEPT ![GetSlot] = 0]
    /\ IF advance_first
       THEN /\ got' = Append(got, c')
            /\ r_pc' = "get_check"
            /\ d_left' = IF d_put THEN 0 ELSE d_left - 1
       ELSE /\ r_pc' = "get_adv"
            /\ UNCHANGED << got, d_left >>
    /\ UNCHANGED << mainpc, xBinarySemaphore, sem, tx_r, tx_w, put, drops,
                    senderVars, cnt_ok_r, cnt_err_r, d_put, wake, unitVars,
                    taskPrio, buildVars >>

\* *pval = txbuf[tx_r];  the first access of the call in the source's order,
\* the second (then return 0 and printf("%c", c)) in the build that writes
\* tx_r first
ReceiverGetLoad ==
    /\ mainpc = "scheduling"
    /\ prio_r # 0
    /\ r_pc = "get_load"
    /\ c' = txbuf[GetSlot]
    /\ IF advance_first
       THEN /\ got' = Append(got, c')
            /\ r_pc' = "get_check"
            /\ d_left' = IF d_put THEN 0 ELSE d_left - 1
       ELSE /\ r_pc' = "get_adv"
            /\ UNCHANGED << got, d_left >>
    /\ UNCHANGED << mainpc, xBinarySemaphore, sem, txbuf, tx_r, tx_w, put,
                    drops, senderVars, cnt_ok_r, cnt_err_r, d_put, wake,
                    unitVars, taskPrio, buildVars >>

\* mutant: `if` for `while`: one byte per take
ReceiverGetAdv_once ==
    /\ mainpc = "scheduling"
    /\ prio_r # 0
    /\ r_pc = "get_adv"
    /\ tx_r' = NEXT_PLACE(tx_r)
    /\ IF advance_first
       THEN /\ r_pc' = "get_load"
            /\ UNCHANGED << got, d_left >>
       ELSE /\ got' = Append(got, c)
            /\ r_pc' = "take"
            /\ d_left' = IF d_put THEN 0 ELSE d_left - 1
    /\ UNCHANGED << mainpc, xBinarySemaphore, sem, txbuf, tx_w, put, drops,
                    senderVars, cnt_ok_r, cnt_err_r, c, d_put, wake, unitVars,
                    taskPrio, buildVars >>

\* tx_r = NEXT_PLACE(tx_r);  the second access of the call in the source's
\* order (then return 0 and printf("%c", c)), the first in the build that
\* writes tx_r first
ReceiverGetAdv ==
    /\ mainpc = "scheduling"
    /\ prio_r # 0
    /\ r_pc = "get_adv"
    /\ tx_r' = NEXT_PLACE(tx_r)
    /\ IF advance_first
       THEN /\ r_pc' = "get_load"
            /\ UNCHANGED << got, d_left >>
       ELSE /\ got' = Append(got, c)
            /\ r_pc' = "get_check"
            /\ d_left' = IF d_put THEN 0 ELSE d_left - 1
    /\ UNCHANGED << mainpc, xBinarySemaphore, sem, txbuf, tx_w, put, drops,
                    senderVars, cnt_ok_r, cnt_err_r, c, d_put, wake, unitVars,
                    taskPrio, buildVars >>

Receiver ==
    \/ ReceiverTake \/ ReceiverCount \/ ReceiverGetCheck
    \/ ReceiverGetLoad \/ ReceiverGetAdv

---------------------------------------------------------------------------
(* The program: main, then the two tasks interleaved freely.  The sender   *)
(* stops after MaxBatchFree batches, and after MaxBatchRace batches in the *)
(* build that writes tx_w first.                                           *)

SenderFree ==
    /\ Sender
    /\ ~(/\ s_pc = "put_check"
         /\ cnt_tx >= BatchLen * (IF index_first THEN MaxBatchRace ELSE MaxBatchFree))

Next == Main \/ SenderFree \/ Receiver

Spec == Init /\ [][Next]_vars

---------------------------------------------------------------------------
(* The ring buffer alone: txbuf_put and txbuf_get called one after the     *)
(* other by a single caller, from an empty buffer at any index position    *)
(* (tx_r = tx_w = k, as k puts and k gets leave the indices).  The caller  *)
(* passes the bytes the sender passes; put, got and cnt_tx count from the  *)
(* first call made here.                                                   *)

InitUnit ==
    /\ mainpc = "unit"
    /\ index_first \in BOOLEAN
    /\ advance_first \in BOOLEAN
    /\ xBinarySemaphore = NULL
    /\ sem = 0
    /\ tx_r \in 0 .. BUF_LEN - 1
    /\ tx_w = tx_r
    /\ InitBuffer
    /\ InitTasks
    /\ op = "none" /\ ret = 0

\* ret = txbuf_put('a'+cnt_tx); cnt_tx++
UnitPut ==
    /\ mainpc = "unit"
    /\ cnt_tx < MaxUnitPut
    /\ LET res == txbuf_put(txbuf, tx_r, tx_w, SenderByte(cnt_tx)) IN
          /\ txbuf' = res.txbuf
          /\ tx_r' = res.tx_r
          /\ tx_w' = res.tx_w
          /\ ret' = res.ret
          /\ put' = IF res.ret = 0 THEN Append(put, SenderByte(cnt_tx)) ELSE put
          /\ drops' = IF res.ret = 0 THEN drops ELSE drops \cup {cnt_tx}
    /\ cnt_tx' = cnt_tx + 1
    /\ op' = "put"
    /\ UNCHANGED << mainpc, xBinarySemaphore, sem, got, s_pc, i, cnt_ok_s,
                    cnt_err_s, receiverVars, drainVars, taskPrio, buildVars >>

\* ret = txbuf_get(&c)
UnitGet ==
    /\ mainpc = "unit"
    /\ LET res == txbuf_get(txbuf, tx_r, tx_w, c) IN
          /\ txbuf' = res.txbuf
          /\ tx_r' = res.tx_r
          /\ tx_w' = res.tx_w
          /\ c' = res.pval
          /\ ret' = res.ret
          /\ got' = IF res.ret = 0 THEN Append(got, res.pval) ELSE got
    /\ op' = "get"
    /\ UNCHANGED << mainpc, xBinarySemaphore, sem, put, drops, senderVars,
                    r_pc, cnt_ok_r, cnt_err_r, drainVars, taskPrio, buildVars >>

NextUnit == UnitPut \/ UnitGet

SpecUnit == InitUnit /\ [][NextUnit]_vars

---------------------------------------------------------------------------
(* Strict preemptive priority scheduling: the processor runs the ready task *)
(* of the higher priority.  A task that was not created is never ready.     *)
(* The sender is blocked while in vTaskDelay, the receiver while in         *)
(* xSemaphoreTake on an unsignaled semaphore.  The tick that ends the delay *)
(* comes at any time, between any two statements of the receiver; after     *)
(* MaxBatch batches (MaxBatchPrio in SpecPrio) it no longer comes.          *)

SenderReady == prio_s # 0 /\ s_pc # "delay"

ReceiverReady == prio_r # 0 /\ (r_pc # "take" \/ sem = 1)

SenderRuns == (prio_s > prio_r \/ ~ReceiverReady) /\ SenderCode

ReceiverRuns == (prio_r > prio_s \/ ~SenderReady) /\ Receiver

DelayExpires == cnt_tx < BatchLen * MaxBatch /\ SenderDelay

\* the reference configuration: the priorities main gives
NextRef == Main \/ SenderRuns \/ ReceiverRuns \/ DelayExpires

SpecRef ==
    /\ Init /\ [][NextRef]_vars
    /\ WF_vars(SenderRuns) /\ WF_vars(ReceiverRuns) /\ WF_vars(DelayExpires)

\* main with the priorities in either order
MainEither ==
    \/ MainWith(SenderPriority, ReceiverPriority)
    \/ MainWith(ReceiverPriority, SenderPriority)

DelayExpiresPrio == cnt_tx < BatchLen * MaxBatchPrio /\ SenderDelay

NextPrio == MainEither \/ SenderRuns \/ ReceiverRuns \/ DelayExpiresPrio

SpecPrio ==
    /\ Init /\ [][NextPrio]_vars
    /\ WF_vars(SenderRuns) /\ WF_vars(ReceiverRuns) /\ WF_vars(DelayExpiresPrio)

---------------------------------------------------------------------------
(* Claims *)

IsPrefix(s, t) == Len(s) <= Len(t) /\ \A k \in 1 .. Len(s) : s[k] = t[k]

\* the gets that have advanced tx_r: those that returned 0, and one more
\* while a get that has advanced tx_r has still to load its byte
Gets == IF advance_first /\ r_pc = "get_load" THEN Len(got) + 1 ELSE Len(got)

\* unread bytes: puts that have advanced tx_w less gets that have advanced
\* tx_r
Unread == Len(put) - Gets

C1_FifoPrefixSourceOrder == ~index_first => IsPrefix(got, put)

\* C2: every byte stored by a successful put is eventually returned by a get,
\* also when the give that followed the put failed: a give that fails leaves
\* the pending signal in place, and whenever the receiver exists and stored
\* bytes are unreturned there comes a state where all of them are returned.
C2_NoLostWakeup ==
    /\ [][ (s_pc = "give" /\ s_pc' = "gave_err") => (sem = 1 /\ sem' = 1) ]_vars
    /\ (prio_r # 0 /\ got # put) ~> (got = put)

\* C2 witness: gives have failed, each after a put that stored its byte, and
\* every byte stored has been returned.
C2_Witness ==
    /\ cnt_err_s > 0
    /\ drops = {}
    /\ Len(put) = cnt_tx
    /\ Len(got) = Len(put)

\* C3: txbuf_put on a full buffer returns -1 and changes neither index nor
\* any element; otherwise it returns 0, stores the byte at the old tx_w and
\* advances tx_w by one modulo 32.
C3_PutContract ==
    [][ op' = "put" =>
          IF (tx_w + 1) % BUF_LEN = tx_r
          THEN ret' = -1 /\ tx_r' = tx_r /\ tx_w' = tx_w /\ txbuf' = txbuf
          ELSE /\ ret' = 0
               /\ tx_r' = tx_r
               /\ tx_w' = (tx_w + 1) % BUF_LEN
               /\ txbuf' = [k \in 0 .. BUF_LEN - 1 |->
                               IF k = tx_w THEN SenderByte(cnt_tx) ELSE txbuf[k]]
      ]_vars

\* C3 witness: a put has just failed on a buffer filled by 31 puts, with the
\* write index wrapped below the read index.
C3_Witness ==
    /\ op = "put" /\ ret = -1
    /\ Len(put) = BUF_LEN - 1 /\ Len(got) = 0
    /\ tx_w < tx_r

\* C4: txbuf_get on an empty buffer returns -1 and changes neither the
\* buffer, the indices nor the caller's byte; otherwise it returns 0, yields
\* the byte at the old tx_r and advances tx_r by one modulo 32.
C4_GetContract ==
    [][ op' = "get" =>
          IF tx_r = tx_w
          THEN ret' = -1 /\ tx_r' = tx_r /\ tx_w' = tx_w /\ txbuf' = txbuf /\ c' = c
          ELSE /\ ret' = 0
               /\ c' = txbuf[tx_r]
               /\ tx_r' = (tx_r + 1) % BUF_LEN
               /\ tx_w' = tx_w
               /\ txbuf' = txbuf
      ]_vars

\* C4 witness: a get has just failed on a buffer emptied by gets, and the
\* caller still holds the last byte it was given.
C4_Witness ==
    /\ op = "get" /\ ret = -1
    /\ Len(got) > 0 /\ Len(got) = Len(put)
    /\ c = got[Len(got)]

\* C5: the buffer is empty initially and whenever gets equal puts; from an
\* empty buffer at any index position, with no get, it is full after exactly
\* 31 successful puts and not after fewer.
C5_EmptyAndFull ==
    /\ (Len(got) = Len(put) => is_txbuf_empty(tx_r, tx_w))
    /\ (Len(got) = 0 => (is_txbuf_full(tx_r, tx_w) <=> Len(put) = 31))

\* C5 witness: full after 31 puts from a start position where the write
\* index wrapped.
C5_Witness ==
    /\ Len(got) = 0 /\ Len(put) = 31
    /\ is_txbuf_full(tx_r, tx_w)
    /\ tx_w < tx_r

\* C6: the indices stay in 0..31, (tx_w - tx_r) mod 32 is the number of
\* successful puts minus successful gets and lies in 0..31, and the buffer is
\* empty exactly when tx_r = tx_w.
C6_IndexInvariant ==
    /\ tx_r \in 0 .. 31
    /\ tx_w \in 0 .. 31
    /\ (tx_w - tx_r) % 32 = Unread
    /\ Unread \in 0 .. 31
    /\ (Unread = 0 <=> tx_r = tx_w)

\* C6 witness: 31 unread bytes with the write index wrapped.
C6_Witness ==
    /\ Unread = 31
    /\ tx_w < tx_r
    /\ Len(got) > 0

\* the gives that returned pdTRUE: those the sender has counted in cnt_ok,
\* and the one it is about to count
GivesOk == IF s_pc = "gave_ok" THEN cnt_ok_s + 1 ELSE cnt_ok_s

\* the takes that returned pdTRUE, likewise
TakesOk == IF r_pc = "took_ok" THEN cnt_ok_r + 1 ELSE cnt_ok_r

\* C7: the semaphore holds at most one signal: successful gives minus
\* successful takes is the semaphore's count, 0 or 1.  (The two cnt_ok
\* counters are updated one statement after the calls return, so their own
\* difference ranges over -1 .. 2.)
C7_BinarySemaphore ==
    /\ sem \in {0, 1}
    /\ GivesOk - TakesOk = sem
    /\ cnt_ok_s - cnt_ok_r \in -1 .. 2

\* C7 witness: a give has failed on a signaled semaphore, a take has
\* returned pdTRUE and is not yet counted, a later give has succeeded and
\* its signal is pending: the counters differ by 2, the calls by 1.
C7_Witness ==
    /\ cnt_err_s > 0
    /\ r_pc = "took_ok"
    /\ sem = 1
    /\ cnt_ok_s - cnt_ok_r = 2

\* C8: when no put completes during a drain that started with N unread bytes,
\* the take is followed by exactly N gets that return data (d_left counts
\* them down from N) and then one get that returns -1, which sends the
\* receiver back to xSemaphoreTake.
C8_BatchDrain ==
    [][ ~d_put =>
          /\ (r_pc # "take" /\ r_pc' = "take") =>
                (r_pc = "get_check" /\ d_left = 0)
          /\ (r_pc = "get_check" /\ r_pc' \in {"get_load", "get_adv"}) => d_left > 0
          /\ (r_pc = "take" /\ r_pc' # "take") => (r_pc' = "took_ok" /\ d_left' = Unread)
          /\ (r_pc = "took_ok" /\ r_pc' # "took_ok") => (r_pc' = "get_check" /\ d_left' = d_left)
          /\ got' # got => (r_pc' = "get_check" /\ d_left' = d_left - 1)
      ]_vars

\* C8 witness: the first drain started with 31 unread bytes, no put completed
\* during it, it has returned 31 bytes and is about to see the empty buffer.
C8_Witness ==
    /\ r_pc = "get_check"
    /\ ~d_put
    /\ cnt_ok_r = 1
    /\ Len(got) = BUF_LEN - 1
    /\ d_left = 0
    /\ is_txbuf_empty(tx_r, tx_w)

\* the attempt numbers below n whose byte was stored, in order
KeptBelow(n) == SelectSeq([k \in 1 .. n |-> k - 1], LAMBDA a : a \notin drops)

\* the attempts whose txbuf_put has returned -1 or advanced tx_w: cnt_tx of
\* them, and one more until cnt_tx++ has counted the last (while a put that
\* has advanced tx_w has still to store its byte, and before cnt_tx++)
Attempted ==
    IF s_pc = "inc" \/ (index_first /\ s_pc = "put_store") THEN cnt_tx + 1
    ELSE cnt_tx

C9_State ==
    /\ LET kept == KeptBelow(Attempted) IN
          put = [j \in 1 .. Len(kept) |-> SenderByte(kept[j])]
    /\ IsPrefix(got, put)
    /\ \A a \in drops : \A j \in 1 .. Len(got) : got[j] # SenderByte(a)
    /\ Gets = 0 => drops = {a \in 0 .. Attempted - 1 : a >= 31}
    /\ drops = {} => put = [j \in 1 .. Attempted |-> SenderByte(j - 1)]

\* C9: an attempted byte is missing from the output exactly when 31 bytes
\* were unread at its full check; cnt_tx advances on a failed put; with the
\* receiver stalled attempts 1..31 are stored and later ones dropped; the
\* output never holds a dropped value; with no drop the stored sequence is
\* the attempted sequence.
C9_DropExactlyWhenFull ==
    /\ []C9_State
    /\ [][ (s_pc = "put_check" /\ s_pc' # "put_check") =>
              /\ (cnt_tx \in drops') <=> (Unread = 31)
              /\ (cnt_tx \in drops') => s_pc' = "inc"
       ]_vars
    /\ [][ (s_pc = "inc" /\ s_pc' # "inc") =>
              (cnt_tx' = cnt_tx + 1 /\ s_pc' = "give") ]_vars

\* C9 witness: the receiver did not run before the buffer was full, the
\* 32nd and 33rd attempts (the rest of that batch) were dropped, and the
\* receiver has drained past the gap.
C9_Witness ==
    /\ drops = {31, 32}
    /\ Len(got) = 32
    /\ got[31] = SenderByte(30)
    /\ got[32] = SenderByte(33)

\* C10: xSemaphoreTake never returns failure to the receiver: its cnt_err
\* stays 0.
C10_TakeNeverFails == cnt_err_r = 0

\* C10 witness: the receiver is blocked in xSemaphoreTake on an unsignaled
\* semaphore after the sender's last give, and has not seen a failure.
C10_Witness ==
    /\ r_pc = "take" /\ sem = 0
    /\ cnt_tx = BatchLen * MaxBatchFree /\ s_pc = "put_check"
    /\ cnt_ok_r > 0
    /\ cnt_err_r = 0

\* C11: when xSemaphoreCreateBinary returns NULL, main returns: no task is
\* created, the scheduler is not started and no put, get, give or take step
\* ever occurs.
C11_NoStartWithoutSemaphore ==
    (mainpc # "start" /\ xBinarySemaphore = NULL) =>
        /\ mainpc = "returned"
        /\ prio_s = 0 /\ prio_r = 0
        /\ s_pc = "put_check" /\ cnt_tx = 0 /\ cnt_ok_s = 0 /\ cnt_err_s = 0
        /\ r_pc = "take" /\ cnt_ok_r = 0 /\ cnt_err_r = 0
        /\ sem = 0 /\ tx_r = 0 /\ tx_w = 0
        /\ put = << >> /\ got = << >> /\ drops = {}
        /\ ~ ENABLED Next

\* C11 witness: main has returned after a failed creation.
C11_Witness == mainpc = "returned" /\ xBinarySemaphore = NULL

\* C12: under strict preemptive priority scheduling, with the sender the
\* higher priority or the receiver the higher priority, the bytes returned
\* are always a prefix of the bytes stored, and whenever stored bytes are
\* unread there comes a state where every stored byte has been returned
\* (so each stored byte is eventually returned, the returned bytes only
\* growing).
C12_PriorityIndependent ==
    /\ IsPrefix(got, put)
    /\ [][IsPrefix(got', put')]_vars
    /\ (prio_r # 0 /\ got # put) ~> (got = put)

\* C12 witness: with the receiver the higher priority, every byte of every
\* batch has been stored and returned.
C12_Witness ==
    /\ prio_r > prio_s
    /\ cnt_tx = BatchLen * MaxBatchPrio
    /\ Len(put) = cnt_tx
    /\ got = put

C13_State ==
    mainpc = "scheduling" =>
        /\ cnt_ok_s + cnt_err_s =
              (IF s_pc \in {"give", "gave_ok", "gave_err"} THEN cnt_tx - 1 ELSE cnt_tx)
        /\ s_pc \in {"put_check", "put_store", "put_adv", "inc"} =>
               (i < BatchLen /\ cnt_tx % BatchLen = i)
        /\ s_pc \in {"give", "gave_ok", "gave_err", "loop"} =>
               (i < BatchLen /\ (cnt_tx - 1) % BatchLen = i)
        /\ s_pc = "delay" => (i = BatchLen /\ cnt_tx % BatchLen = 0)

\* C13: each put attempt, whether it returned 0 or -1, is followed by
\* cnt_tx++ and exactly one give before the next attempt or the delay, and
\* the give's outcome is counted in the statement after it: between the
\* give and its count cnt_ok + cnt_err = cnt_tx - 1, everywhere else
\* cnt_ok + cnt_err = cnt_tx, in particular at the end of every batch; a
\* batch is 3 attempts, then one delay.
C13_GivePerAttempt ==
    /\ C13_State
    /\ [][ /\ C13_State'
           /\ (s_pc \in {"put_check", "put_store", "put_adv"} /\ s_pc' # s_pc) =>
                 s_pc' \in {"put_store", "put_adv", "inc"}
           /\ cnt_tx' # cnt_tx =>
                 (cnt_tx' = cnt_tx + 1 /\ s_pc = "inc" /\ s_pc' = "give")
           /\ (s_pc = "give" /\ s_pc' # "give") => s_pc' \in {"gave_ok", "gave_err"}
           /\ (s_pc = "gave_ok" /\ s_pc' # s_pc) =>
                 (s_pc' = "loop" /\ cnt_ok_s' = cnt_ok_s + 1 /\ cnt_err_s' = cnt_err_s)
           /\ (s_pc = "gave_err" /\ s_pc' # s_pc) =>
                 (s_pc' = "loop" /\ cnt_ok_s' = cnt_ok_s /\ cnt_err_s' = cnt_err_s + 1)
           /\ s_pc \notin {"gave_ok", "gave_err"} =>
                 (cnt_ok_s' = cnt_ok_s /\ cnt_err_s' = cnt_err_s)
           /\ (s_pc = "loop" /\ s_pc' # "loop") =>
                 s_pc' = (IF i = BatchLen - 1 THEN "delay" ELSE "put_check")
           /\ (s_pc = "delay" /\ s_pc' # "delay") => (s_pc' = "put_check" /\ i' = 0)
       ]_vars

\* C13 witness: the end of a batch in which a put returned -1 and gives
\* failed, every attempt counted.
C13_Witness ==
    /\ s_pc = "delay"
    /\ drops # {}
    /\ cnt_err_s > 0
    /\ cnt_ok_s + cnt_err_s = cnt_tx

\* C14 as stated: the receiver has the higher priority, so while a signal is
\* pending for a receiver waiting in xSemaphoreTake the sender does not start
\* its next put.
C14_Original ==
    /\ (prio_s # 0 /\ prio_r # 0) => prio_r > prio_s
    /\ [][ /\ (prio_s' # 0 /\ prio_r' # 0) => prio_r' > prio_s'
           /\ (prio_r # 0 /\ sem = 1 /\ r_pc = "take") =>
                 ~(s_pc = "put_check" /\ s_pc' # "put_check")
       ]_vars

\* C14 amended: in the reference configuration the sender has the higher
\* priority (2) and the receiver the lower (1), so a give that wakes the
\* receiver does not let it run: the receiver takes a step only while the
\* sender is blocked in vTaskDelay, after the remaining puts of the batch.
C14_SenderHigher ==
    /\ (prio_s # 0 /\ prio_r # 0) => prio_s > prio_r
    /\ [][ /\ (prio_s' # 0 /\ prio_r' # 0) =>
                 (prio_s' = 2 /\ prio_r' = 1 /\ prio_s' > prio_r')
           /\ (prio_s # 0 /\ receiverVars' # receiverVars) => s_pc = "delay"
       ]_vars

\* C14 witness: a signal is pending for the receiver waiting in
\* xSemaphoreTake, and the sender is in the middle of its next put.
C14_Witness ==
    /\ sem = 1 /\ r_pc = "take"
    /\ prio_s = SenderPriority /\ prio_r = ReceiverPriority
    /\ s_pc \in {"put_store", "put_adv"}
    /\ i > 0
    /\ cnt_ok_s = 1 /\ cnt_ok_r = 0

\* C15: a take can succeed with nothing to drain (the witness below is such
\* an execution), and only for the reason given: when the first get after a
\* successful take returns -1, an earlier wake-up exists and has already
\* drained bytes, so the first wake-up is never empty.
C15_EmptyWakeupOnlyAfterDrain ==
    wake = "empty" =>
        /\ r_pc = "take"
        /\ cnt_ok_r >= 2
        /\ Len(got) >= 1

\* C15 witness: a take has succeeded and the very first get after it has
\* returned -1, with no put ever failed: the byte behind the signal was
\* drained in the wake-up before.
C15_Witness ==
    /\ wake = "empty"
    /\ drops = {}
    /\ got = put

\* C16: the sender is never blocked or halted by an error. In every state
\* the give is enabled whatever the semaphore holds, the put steps are
\* enabled whether or not the buffer is full, and the receiver inside its
\* drain loop has a step; a failed put or a failed give moves the sender on
\* exactly as a successful one does; and from every state inside a batch
\* the sender reaches the delay that ends the batch.
C16_SenderNeverHalts ==
    /\ [](mainpc = "scheduling" =>
            /\ s_pc \in {"put_check", "put_store", "put_adv", "inc", "give",
                         "gave_ok", "gave_err", "loop", "delay"}
            /\ r_pc \in {"take", "took_ok", "get_check", "get_load", "get_adv"}
            /\ (s_pc = "give" => ENABLED SenderGive)
            /\ (prio_s # 0 /\ s_pc = "put_check" => ENABLED SenderPutCheck)
            /\ (s_pc \in {"put_store", "put_adv", "inc", "gave_ok", "gave_err",
                          "loop"} => ENABLED SenderCode)
            /\ (r_pc # "take" => ENABLED Receiver))
    /\ [][ /\ (s_pc = "put_check" /\ is_txbuf_full(tx_r, tx_w) /\ s_pc' # s_pc)
                => s_pc' = "inc"
           /\ (s_pc = "give" /\ sem = 1 /\ s_pc' # s_pc) => s_pc' = "gave_err"
           /\ (s_pc = "gave_err" /\ s_pc' # s_pc)
                => (cnt_err_s' = cnt_err_s + 1 /\ s_pc' = "loop")
           /\ (s_pc = "loop" /\ s_pc' # s_pc)
                => s_pc' = IF i + 1 < BatchLen THEN "put_check" ELSE "delay"
         ]_vars
    /\ (mainpc = "scheduling" /\ prio_s # 0 /\ s_pc # "delay") ~> (s_pc = "delay")

\* C16 witness: the sender is at the delay after a batch whose last put
\* failed on a full buffer and whose last give failed on a signaled semaphore.
C16_Witness ==
    /\ s_pc = "delay"
    /\ i = BatchLen
    /\ (cnt_tx - 1) \in drops
    /\ sem = 1
    /\ cnt_err_s >= 2

\* The printable ASCII characters, space to tilde.
Printable == 32 .. 126

\* C17: every byte value the sender passes to txbuf_put is printable: the
\* value about to be passed at the head of each attempt, and every value
\* the buffer has accepted. The code passes 'a' + cnt_tx truncated to
\* unsigned char and never wraps the alphabet, so this fails from attempt
\* 30 on (97 + 30 = 127, DEL).
C17_AllPrintable ==
    /\ (mainpc = "scheduling" /\ s_pc = "put_check")
          => SenderByte(cnt_tx) \in Printable
    /\ \A k \in 1 .. Len(put) : put[k] \in Printable

\* C18: a failed put is counted for diagnostics: whenever the sender stands
\* between two attempts (at the head of a put or in the delay), one of its
\* counters equals the number of put attempts that returned -1. The code
\* discards the return value of txbuf_put; cnt_ok and cnt_err count the
\* outcomes of the give and cnt_tx counts every attempt, so none of them
\* does.
C18_FailedPutCounted ==
    (mainpc = "scheduling" /\ s_pc \in {"put_check", "delay"}) =>
        \/ cnt_err_s = Cardinality(drops)
        \/ cnt_ok_s = Cardinality(drops)
        \/ cnt_tx = Cardinality(drops)

\* C19: index ownership is split. Every step of the sender (the steps of
\* txbuf_put, the give, the counting, the delay) leaves tx_r unchanged; every
\* step of the receiver (the take, the counting, the steps of txbuf_get)
\* leaves tx_w and every element of txbuf unchanged; the steps that evaluate
\* is_txbuf_full and is_txbuf_empty leave tx_r, tx_w and txbuf unchanged.
\* (Every step of a task changes that task's position, and no step changes
\* the other task's: the task that took a step is the one whose position
\* changed.)
C19_IndexOwnership ==
    [][ /\ s_pc' # s_pc => (tx_r' = tx_r /\ r_pc' = r_pc)
        /\ r_pc' # r_pc => (tx_w' = tx_w /\ txbuf' = txbuf /\ s_pc' = s_pc)
        /\ (tx_r' # tx_r \/ tx_w' # tx_w \/ txbuf' # txbuf) =>
              (s_pc' # s_pc \/ r_pc' # r_pc)
        /\ ((s_pc = "put_check" /\ s_pc' # s_pc) \/ (r_pc = "get_check" /\ r_pc' # r_pc))
              => (tx_r' = tx_r /\ tx_w' = tx_w /\ txbuf' = txbuf)
      ]_vars

\* C19 witness: both sides have moved their own index, the writer has
\* wrapped around behind the reader, and the receiver is inside a get.
C19_Witness ==
    /\ tx_r > 0
    /\ tx_w < tx_r
    /\ Len(put) > BUF_LEN
    /\ r_pc = "get_adv"

\* C20: no lost wake-up. In every reachable state where the buffer holds at
\* least one unread byte and the sender is not between a txbuf_put and the
\* give that follows it (from the advance of tx_w to the give: cnt_tx++, and
\* in the build that writes tx_w first the store of the byte that ends the
\* put), the semaphore is signaled or the receiver has taken it and no get
\* has returned -1 since (it is about to count the take or inside its drain
\* loop). Hence the receiver is never blocked in the take on an unsignaled
\* semaphore over data whose give has been issued.
C20_NoLostWakeupInvariant ==
    (/\ mainpc = "scheduling"
     /\ Unread >= 1 /\ tx_r # tx_w
     /\ s_pc \notin {"inc", "give"} /\ ~(index_first /\ s_pc = "put_store")) =>
        \/ sem = 1
        \/ r_pc \in {"took_ok", "get_check", "get_load", "get_adv"}

\* C20 witness: unread data, the sender past its give, the semaphore already
\* consumed, and the receiver about to test the buffer in its drain loop.
C20_Witness ==
    /\ Unread >= 2
    /\ s_pc = "put_check"
    /\ sem = 0
    /\ r_pc = "get_check"
    /\ wake = "fresh"

====
